---- MODULE Spec2Model ----
(***************************************************************************)
(* rfcparser: RFC 3986 URI parsing, RFC 6265 cookie-date parsing and the   *)
(* Set-Cookie attribute algorithm (rfcparser/core.py,                      *)
(* rfcparser/object_abstractions.py).                                      *)
(*                                                                         *)
(* Python strings are TLA+ strings, handled with Len, SubSeq and \o.       *)
(* An optional value is <<>> (None) or <<v>>.  A call's outcome is a       *)
(* record: [raised |-> FALSE, v |-> value] for a return and                *)
(* [raised |-> TRUE, exc |-> type, cause |-> type] for an exception.       *)
(***************************************************************************)
EXTENDS Integers, Sequences, FiniteSets, TLC

VARIABLES clock, call, ret, parser, kwargs, reads, thread

\* The state of one LazyLoadLark descriptor and of the threads using it.
lazy == <<parser, kwargs, reads, thread>>

vars == <<clock, call, ret, parser, kwargs, reads, thread>>

\* ------------------------------------------------------------ Python values

None == <<>>

Some(x) == <<x>>

IsNone(o) == o = <<>>

Ok(x) == [raised |-> FALSE, v |-> x]

Raise(e) == [raised |-> TRUE, exc |-> e, cause |-> "-"]

RaiseFrom(e, c) == [raised |-> TRUE, exc |-> e, cause |-> c]

\* What ret holds while no call is under way.
NoCall == [raised |-> FALSE, v |-> [class |-> "NoCall"]]

\* A value whose Python type the code does not fix: str, bool, int, datetime.
PyStr(s) == [str |-> s]

PyBool(b) == [bool |-> b]

PyInt(n) == [int |-> n]

\* datetime.now() + n seconds, read when the clock shows t.
Instant(t) == [at |-> t]

\* ----------------------------------------------------------- string helpers

DigitSet == {"0", "1", "2", "3", "4", "5", "6", "7", "8", "9"}

UpperCase == "ABCDEFGHIJKLMNOPQRSTUVWXYZ"

LowerCase == "abcdefghijklmnopqrstuvwxyz"

UpperSet == {SubSeq(UpperCase, i, i) : i \in 1..Len(UpperCase)}

LowerSet == {SubSeq(LowerCase, i, i) : i \in 1..Len(LowerCase)}

\* The value of each digit, and the lower-case letter of each capital.
DigitValue ==
    [c \in DigitSet |-> CHOOSE n \in 0..9 : SubSeq("0123456789", n + 1, n + 1) = c]

LowerOf ==
    [c \in UpperSet |->
        LET i == CHOOSE j \in 1..Len(UpperCase) : SubSeq(UpperCase, j, j) = c
        IN  SubSeq(LowerCase, i, i)]

CharAt(s, i) == SubSeq(s, i + 1, i + 1)

\* c.isdigit(), c.isalpha() for one character of the ASCII alphabet
IsDigit(c) == c \in DigitSet

IsAlpha(c) == c \in UpperSet \/ c \in LowerSet

RECURSIVE Lower(_)
Lower(s) ==
    IF s = "" THEN ""
    ELSE (IF Head(s) \in UpperSet THEN LowerOf[Head(s)] ELSE Head(s)) \o Lower(Tail(s))

\* int(s) for a string of decimal digits.
RECURSIVE ToInt(_)
ToInt(s) ==
    IF s = "" THEN 0
    ELSE ToInt(SubSeq(s, 1, Len(s) - 1)) * 10 + DigitValue[SubSeq(s, Len(s), Len(s))]

AllDigits(s) == \A i \in 1..Len(s) : IsDigit(SubSeq(s, i, i))

\* s.find(c): the 0-based index of the first c in s, or -1.
RECURSIVE FindFrom(_, _, _)
FindFrom(s, c, i) ==
    IF i > Len(s) THEN -1
    ELSE IF SubSeq(s, i, i) = c THEN i - 1
    ELSE FindFrom(s, c, i + 1)

Find(s, c) == FindFrom(s, c, 1)

\* s.count(c)
Count(s, c) == Cardinality({i \in 1..Len(s) : SubSeq(s, i, i) = c})

\* s[a:] and s[:b], a negative index counting from the end as Python does.
SliceFrom(s, a) ==
    LET lo == IF a < 0 THEN (IF Len(s) + a < 0 THEN 0 ELSE Len(s) + a) ELSE a
    IN  SubSeq(s, lo + 1, Len(s))

SliceTo(s, b) ==
    LET hi == IF b < 0 THEN (IF Len(s) + b < 0 THEN 0 ELSE Len(s) + b) ELSE b
    IN  SubSeq(s, 1, IF hi > Len(s) THEN Len(s) ELSE hi)

StartsWith(s, p) == Len(p) <= Len(s) /\ SubSeq(s, 1, Len(p)) = p

EndsWith(s, p) == Len(p) <= Len(s) /\ SubSeq(s, Len(s) - Len(p) + 1, Len(s)) = p

RECURSIVE LStrip(_)
LStrip(s) == IF s # "" /\ Head(s) = " " THEN LStrip(Tail(s)) ELSE s

RECURSIVE RStrip(_)
RStrip(s) ==
    IF s # "" /\ SubSeq(s, Len(s), Len(s)) = " "
    THEN RStrip(SubSeq(s, 1, Len(s) - 1))
    ELSE s

\* s.strip()
Strip(s) == RStrip(LStrip(s))

\* s.split(c): the pieces of s between the occurrences of c.
RECURSIVE Split(_, _)
Split(s, c) ==
    LET i == Find(s, c)
    IN  IF i = -1 THEN <<s>>
        ELSE <<SliceTo(s, i)>> \o Split(SliceFrom(s, i + 1), c)

\* c.join(parts)
RECURSIVE Join(_, _)
Join(parts, c) ==
    IF parts = <<>> THEN ""
    ELSE IF Len(parts) = 1 THEN parts[1]
    ELSE parts[1] \o c \o Join(Tail(parts), c)

\* ------------------------------------------------- object_abstractions.py

\* Uri3986: the fields its constructor stores (path is _path).
Uri3986(scheme, ip, port, host, userinfo, path, query, fragment) ==
    [scheme |-> scheme, ip |-> ip, port |-> port, host |-> host,
     userinfo |-> userinfo, path |-> path, query |-> query,
     fragment |-> fragment]

\* Uri3986.get_domain
get_domain(uri) ==
    IF ~IsNone(uri.ip) /\ uri.ip[1] # "" THEN Ok(uri.ip[1])
    ELSE IF IsNone(uri.host) THEN Raise("TypeError")
    ELSE Ok(Join(uri.host[1], "."))

\* str(n) for an integer n >= 0
RECURSIVE IntStr(_)
IntStr(n) ==
    IF n < 10 THEN SubSeq("0123456789", n + 1, n + 1)
    ELSE IntStr(n \div 10) \o SubSeq("0123456789", (n % 10) + 1, (n % 10) + 1)

\* Uri3986.path setter with the leading "/" put before every value.
SetPath_AlwaysSlash(uri, newvalue) == [uri EXCEPT !.path = "/" \o newvalue]

\* Uri3986.path setter
SetPath(uri, newvalue) ==
    [uri EXCEPT !.path = IF newvalue # "" /\ ~StartsWith(newvalue, "/")
                         THEN "/" \o newvalue ELSE newvalue]

\* Uri3986.__eq__ between two Uri3986 objects: field by field, the query
\* as a dict (its order does not count).
UriEq(a, b) ==
    /\ a.scheme = b.scheme
    /\ a.ip = b.ip
    /\ a.port = b.port
    /\ a.host = b.host
    /\ a.userinfo = b.userinfo
    /\ a.path = b.path
    /\ {a.query[i] : i \in 1..Len(a.query)} = {b.query[i] : i \in 1..Len(b.query)}
    /\ a.fragment = b.fragment

\* "&".join(f"{key}={value}" ...) over query.items()
RECURSIVE QueryItems(_)
QueryItems(query) ==
    IF query = <<>> THEN <<>>
    ELSE <<query[1][1] \o "=" \o query[1][2]>> \o QueryItems(Tail(query))

\* Uri3986.__str__: an empty or absent part, and a port 0, is left out, and
\* an empty path is written "/".
UriStr(uri) ==
    IF (IsNone(uri.ip) \/ uri.ip[1] = "") /\ IsNone(uri.host) THEN Raise("TypeError")
    ELSE Ok(uri.scheme \o "://"
            \o (IF ~IsNone(uri.userinfo) /\ uri.userinfo[1] # ""
                THEN uri.userinfo[1] \o "@" ELSE "")
            \o (IF ~IsNone(uri.ip) /\ uri.ip[1] # "" THEN uri.ip[1]
                ELSE Join(uri.host[1], "."))
            \o (IF ~IsNone(uri.port) /\ uri.port[1] # 0
                THEN ":" \o IntStr(uri.port[1]) ELSE "")
            \o (IF uri.path # "" THEN uri.path ELSE "/")
            \o (IF uri.query # <<>> THEN "?" \o Join(QueryItems(uri.query), "&") ELSE "")
            \o (IF ~IsNone(uri.fragment) /\ uri.fragment[1] # ""
                THEN "#" \o uri.fragment[1] ELSE ""))

default_path(uri) ==
    LET uri_path == uri.path
        parts    == Split(uri_path, "/")
    IN  IF uri_path = "" THEN Ok("/")
        ELSE IF Count(uri_path, "/") = 1 THEN Ok("/")
        ELSE IF Len(Join(SubSeq(parts, 1, Len(parts) - 1), "")) = 0
             THEN Raise("AssertionError")
        ELSE IF EndsWith(uri_path, "/") THEN Ok(SliceTo(uri_path, -1))
        ELSE Ok(uri_path)

path_matches(request_path, cookie_path) ==
    IF request_path = cookie_path THEN Ok(TRUE)
    ELSE IF StartsWith(request_path, cookie_path)
         THEN IF cookie_path = "" THEN Raise("IndexError")
              ELSE IF SubSeq(cookie_path, Len(cookie_path), Len(cookie_path)) = "/"
                   THEN Ok(TRUE)
              ELSE IF request_path = "" THEN Raise("IndexError")
              ELSE IF CharAt(request_path, 0) = "/" THEN Ok(TRUE)
              ELSE Ok(FALSE)
    ELSE Ok(FALSE)

\* ------------------------------------------------------- core.py: URI parser

\* The "uri" rule of grammars/rfc3986_uri.lark, as far as tree_parse reads its
\* tree: scheme ":" "//" [userinfo "@"] host [":" port] path-abempty
\* ["?" query] ["#" fragment]; host is an IPv4 literal, a bracketed IPv6
\* literal or a registered name.
UnreservedChar == UpperSet \cup LowerSet \cup DigitSet \cup {"-", ".", "_", "~"}

SubDelimChar == {"!", "$", "&", "+", ",", "="}

PChar == UnreservedChar \cup SubDelimChar \cup {":", "@"}

\* Every character of s is of the class.
AllChars(s, class) == \A i \in 1..Len(s) : SubSeq(s, i, i) \in class

SchemeChar == UpperSet \cup LowerSet \cup DigitSet \cup {"+", "-", "."}

RegNameChar == UnreservedChar \cup SubDelimChar

UserinfoChar == UnreservedChar \cup SubDelimChar \cup {":"}

QueryChar == PChar \cup {"/", "?"}

IPv6Char == UpperSet \cup LowerSet \cup DigitSet \cup {":", "."}

\* dec-octet: 0..255 with no leading zero.
DecOctet(s) ==
    /\ Len(s) \in 1..3
    /\ AllDigits(s)
    /\ (Len(s) > 1 => Head(s) # "0")
    /\ ToInt(s) <= 255

IsIPv4(s) ==
    LET parts == Split(s, ".")
    IN  Len(parts) = 4 /\ \A i \in 1..4 : DecOctet(parts[i])

\* The text before the first c (all of s without one), and the text after
\* it (None without one).
BeforeAt(s, i) == IF i = -1 THEN s ELSE SliceTo(s, i)

Before(s, c) == BeforeAt(s, Find(s, c))

AfterAt(s, i) == IF i = -1 THEN None ELSE Some(SliceFrom(s, i + 1))

After(s, c) == AfterAt(s, Find(s, c))

\* The parts of a URI text: scheme ":" hier-part ["?" query] ["#" fragment].
SchemeOf(value) == IF Find(value, ":") = -1 THEN "" ELSE Before(value, ":")

AfterScheme(value) == SliceFrom(value, Find(value, ":") + 1)

FragmentOf(value) == After(AfterScheme(value), "#")

QueryOf(value) == After(Before(AfterScheme(value), "#"), "?")

HierOf(value) == Before(Before(AfterScheme(value), "#"), "?")

\* hier-part is "//" authority path-abempty.
AuthorityOf(hier) == Before(SliceFrom(hier, 2), "/")

SegmentsAt(rest, i) == IF i = -1 THEN <<>> ELSE Tail(Split(SliceFrom(rest, i), "/"))

SegmentsOf(hier) == SegmentsAt(SliceFrom(hier, 2), Find(SliceFrom(hier, 2), "/"))

\* authority is [userinfo "@"] host [":" port].
UserinfoOf(authority) ==
    IF Find(authority, "@") = -1 THEN None ELSE Some(Before(authority, "@"))

HostPortOf(authority) ==
    IF Find(authority, "@") = -1 THEN authority
    ELSE SliceFrom(authority, Find(authority, "@") + 1)

\* Where the host ends in host [":" port]: after "]" for a bracketed literal.
HostEnd(hostport) ==
    IF StartsWith(hostport, "[") THEN Find(hostport, "]") + 1
    ELSE IF Find(hostport, ":") = -1 THEN Len(hostport)
    ELSE Find(hostport, ":")

HostTextOf(hostport) == SliceTo(hostport, HostEnd(hostport))

PortPartOf(hostport) == SliceFrom(hostport, HostEnd(hostport))

HostRule(host_text) ==
    IF StartsWith(host_text, "[") THEN "ip_6address"
    ELSE IF IsIPv4(host_text) THEN "ip_4address"
    ELSE "reg_name"

HostWellFormed(host_text) ==
    IF StartsWith(host_text, "[")
    THEN /\ EndsWith(host_text, "]")
         /\ AllChars(SubSeq(host_text, 2, Len(host_text) - 1), IPv6Char)
         /\ Find(host_text, ":") # -1
    ELSE AllChars(host_text, RegNameChar)

PortWellFormed(port_part) ==
    port_part = "" \/ (Head(port_part) = ":" /\ AllDigits(Tail(port_part)))

OptionWellFormed(o, class) == IsNone(o) \/ AllChars(o[1], class)

UriWellFormed(scheme, hier, userinfo, hostport, segments, query, fragment) ==
    /\ scheme # ""
    /\ IsAlpha(Head(scheme))
    /\ AllChars(scheme, SchemeChar)
    /\ StartsWith(hier, "//")
    /\ OptionWellFormed(userinfo, UserinfoChar)
    /\ HostWellFormed(HostTextOf(hostport))
    /\ PortWellFormed(PortPartOf(hostport))
    /\ \A i \in 1..Len(segments) : AllChars(segments[i], PChar)
    /\ OptionWellFormed(query, QueryChar)
    /\ OptionWellFormed(fragment, QueryChar)

UriTree(scheme, hier, userinfo, hostport, segments, query, fragment) ==
    IF UriWellFormed(scheme, hier, userinfo, hostport, segments, query, fragment)
    THEN Ok([scheme |-> scheme, userinfo |-> userinfo,
             host_rule |-> HostRule(HostTextOf(hostport)),
             host_text |-> HostTextOf(hostport),
             port |-> IF PortPartOf(hostport) = "" THEN None
                      ELSE Some(Tail(PortPartOf(hostport))),
             segments |-> segments, query |-> query, fragment |-> fragment])
    ELSE Raise("UnexpectedInput")

\* The parse tree of a URI string, or a grammar violation.
UriGrammar(value) ==
    UriTree(SchemeOf(value), HierOf(value),
            UserinfoOf(AuthorityOf(HierOf(value))),
            HostPortOf(AuthorityOf(HierOf(value))),
            SegmentsOf(HierOf(value)), QueryOf(value), FragmentOf(value))

\* d[k] = v on a dict kept as a sequence of <<key, value>> in insertion order.
RECURSIVE DictSet(_, _, _)
DictSet(d, k, v) ==
    IF d = <<>> THEN <<<<k, v>>>>
    ELSE IF d[1][1] = k THEN <<<<k, v>>>> \o Tail(d)
    ELSE <<d[1]>> \o DictSet(Tail(d), k, v)

\* The query dict of tree_parse: one entry per "key=value" piece.
RECURSIVE QueryDict(_, _)
QueryDict(pieces, d) ==
    IF pieces = <<>> THEN Ok(d)
    ELSE LET eq == Find(pieces[1], "=")
         IN  IF eq = -1 THEN Raise("ValueError")
             ELSE QueryDict(Tail(pieces),
                            DictSet(d, SliceTo(pieces[1], eq),
                                    SliceFrom(pieces[1], eq + 1)))

RECURSIVE PathOf(_)
PathOf(segments) ==
    IF segments = <<>> THEN "" ELSE "/" \o segments[1] \o PathOf(Tail(segments))

\* tree_parse's return, once the query dict is known.
UriFromTree(tree, query) ==
    IF query.raised THEN query
    ELSE Ok(Uri3986(tree.scheme,
                    IF tree.host_rule = "ip_4address" /\ tree.host_text # ""
                    THEN Some(tree.host_text) ELSE None,
                    IF ~IsNone(tree.port) /\ tree.port[1] # ""
                    THEN Some(ToInt(tree.port[1])) ELSE None,
                    IF tree.host_rule = "reg_name"
                    THEN Some(Split(tree.host_text, ".")) ELSE None,
                    tree.userinfo, PathOf(tree.segments), query.v, tree.fragment))

UriTreeParse(tree) ==
    IF tree.host_rule = "ip_6address" THEN Raise("NotImplementedError")
    ELSE UriFromTree(tree,
                     IF ~IsNone(tree.query) /\ tree.query[1] # ""
                     THEN QueryDict(Split(tree.query[1], "&"), <<>>)
                     ELSE Ok(<<>>))

\* "except Exception as ex: raise ParseException from ex"
AsParseException(res) ==
    IF res.raised THEN RaiseFrom("ParseException", res.exc) ELSE res

\* tree_parse on the parser's tree, where there is one.
UriOnTree(tree) == IF tree.raised THEN tree ELSE UriTreeParse(tree.v)

\* UriParser3986.parse: every exception leaves as ParseException.
UriParse(value) == AsParseException(UriOnTree(UriGrammar(value)))

\* ------------------------------------------------ core.py: cookie-date parser

\* grammars/rfc6265_date.lark, rule cookie_date: the date tokens are the
\* maximal runs of digits, letters and ":"; every other character delimits.
NonDelimiter(c) == IsDigit(c) \/ IsAlpha(c) \/ c = ":"

RECURSIVE DateTokens(_, _)
DateTokens(text, run) ==
    IF text = "" THEN (IF run = "" THEN <<>> ELSE <<run>>)
    ELSE IF NonDelimiter(Head(text)) THEN DateTokens(Tail(text), run \o Head(text))
    ELSE (IF run = "" THEN <<>> ELSE <<run>>) \o DateTokens(Tail(text), "")

\* Rule time: three fields of one or two digits, joined by ":".
TimeRule(token) ==
    LET f == Split(token, ":")
    IN  Len(f) = 3 /\ \A i \in 1..3 : Len(f[i]) \in 1..2 /\ AllDigits(f[i])

\* Rule day_of_month: one or two digits.
DayOfMonthRule(token) == Len(token) \in 1..2 /\ AllDigits(token)

\* Rule year: two to four digits.
YearRule(token) == Len(token) \in 2..4 /\ AllDigits(token)

MonthNames ==
    <<"jan", "feb", "mar", "apr", "may", "jun",
      "jul", "aug", "sep", "oct", "nov", "dec">>

\* DateParser6265.month_map
month_map(name) == CHOOSE i \in 1..12 : MonthNames[i] = name

\* Rule month: one of the twelve abbreviations, in any letter case.
MonthRule(token) == \E i \in 1..12 : MonthNames[i] = Lower(token)

\* DateParser6265.can_parse(token, start)
can_parse(token, start) ==
    CASE start = "time" -> TimeRule(token)
      [] start = "day_of_month" -> DayOfMonthRule(token)
      [] start = "month" -> MonthRule(token)
      [] start = "year" -> YearRule(token)

\* The locals of tree_parse before its loop.
NoSlots ==
    [found_time |-> None, found_day_of_month |-> None, found_month |-> None,
     found_year |-> None, hour_value |-> None, minute_value |-> None,
     second_value |-> None, year_value |-> None, day_of_month_value |-> None,
     month_value |-> None]

\* ClassifyToken that lets a later token overwrite a filled slot.
ClassifyToken_Overwrite(st, token) ==
    IF can_parse(token, "time")
    THEN [st EXCEPT !.found_time = Some(token),
                    !.hour_value = Some(ToInt(Split(token, ":")[1])),
                    !.minute_value = Some(ToInt(Split(token, ":")[2])),
                    !.second_value = Some(ToInt(Split(token, ":")[3]))]
    ELSE IF can_parse(token, "day_of_month")
    THEN [st EXCEPT !.found_day_of_month = Some(token),
                    !.day_of_month_value = Some(ToInt(token))]
    ELSE IF can_parse(token, "month")
    THEN [st EXCEPT !.found_month = Some(token),
                    !.month_value = Some(month_map(Lower(token)))]
    ELSE IF can_parse(token, "year")
    THEN [st EXCEPT !.found_year = Some(token),
                    !.year_value = Some(ToInt(token))]
    ELSE st

\* One pass of tree_parse's loop over the date tokens.
ClassifyToken(st, token) ==
    IF IsNone(st.found_time) /\ can_parse(token, "time")
    THEN LET hms == Split(token, ":")
         IN  [st EXCEPT !.found_time = Some(token),
                        !.hour_value = Some(ToInt(hms[1])),
                        !.minute_value = Some(ToInt(hms[2])),
                        !.second_value = Some(ToInt(hms[3]))]
    ELSE IF IsNone(st.found_day_of_month) /\ can_parse(token, "day_of_month")
    THEN [st EXCEPT !.found_day_of_month = Some(token),
                    !.day_of_month_value = Some(ToInt(token))]
    ELSE IF IsNone(st.found_month) /\ can_parse(token, "month")
    THEN [st EXCEPT !.found_month = Some(token),
                    !.month_value = Some(month_map(Lower(token)))]
    ELSE IF IsNone(st.found_year) /\ can_parse(token, "year")
    THEN [st EXCEPT !.found_year = Some(token),
                    !.year_value = Some(ToInt(token))]
    ELSE st

RECURSIVE ScanTokens(_, _)
ScanTokens(tokens, st) ==
    IF tokens = <<>> THEN st
    ELSE ScanTokens(Tail(tokens), ClassifyToken(st, tokens[1]))

\* NormalizeYear with the pivot one year early: 69 becomes 1969.
NormalizeYear_Pivot69(year_value) ==
    IF 69 <= year_value /\ year_value <= 99 THEN year_value + 1900
    ELSE IF 0 <= year_value /\ year_value <= 99 THEN year_value + 2000
    ELSE year_value

\* The year after tree_parse's two-digit normalisation.
NormalizeYear(year_value) ==
    IF 70 <= year_value /\ year_value <= 99 THEN year_value + 1900
    ELSE IF 0 <= year_value /\ year_value <= 99 THEN year_value + 2000
    ELSE year_value

IsLeapYear(y) == (y % 4 = 0 /\ y % 100 # 0) \/ y % 400 = 0

DaysInMonth(y, m) ==
    IF m = 2 THEN (IF IsLeapYear(y) THEN 29 ELSE 28)
    ELSE IF m \in {4, 6, 9, 11} THEN 30
    ELSE 31

\* datetime(year, month, day, hour, minute, second) of the standard library.
datetime(year, month, day, hour, minute, second) ==
    IF /\ year \in 1..9999
       /\ month \in 1..12
       /\ day \in 1..DaysInMonth(year, month)
       /\ hour \in 0..23
       /\ minute \in 0..59
       /\ second \in 0..59
    THEN Ok([year |-> year, month |-> month, day |-> day, hour |-> hour,
             minute |-> minute, second |-> second])
    ELSE Raise("ValueError")

\* tree_parse after its loop: normalisation, the checks, the datetime.
RangeChecks(st) ==
    IF IsNone(st.year_value) THEN Raise("TypeError")
    ELSE LET year_value == NormalizeYear(st.year_value[1])
         IN  IF \/ IsNone(st.found_time)
                \/ IsNone(st.found_month)
                \/ IsNone(st.found_day_of_month)
             THEN Raise("ValidationException")
             ELSE IF 1 > st.day_of_month_value[1] \/ st.day_of_month_value[1] > 31
             THEN Raise("ValidationException")
             ELSE IF year_value < 1601 THEN Raise("ValidationException")
             ELSE IF st.hour_value[1] > 23 THEN Raise("ValidationException")
             ELSE IF st.minute_value[1] > 59 THEN Raise("ValidationException")
             ELSE IF st.second_value[1] > 59 THEN Raise("ValidationException")
             ELSE datetime(year_value, st.month_value[1],
                           st.day_of_month_value[1], st.hour_value[1],
                           st.minute_value[1], st.second_value[1])

\* DateParser6265.tree_parse over the date tokens of the tree.
DateTreeParse(tokens) == RangeChecks(ScanTokens(tokens, NoSlots))

\* DateParser6265.parse: every exception leaves as ParseException.
DateParse(value) == AsParseException(DateTreeParse(DateTokens(value, "")))

\* --------------------------------------------- core.py: Set-Cookie parser

\* cleaned_attrs[k] = v, and attrs.get(k, default)
Put(d, k, v) == (k :> v) @@ d

Get(d, k, default) == IF k \in DOMAIN d THEN d[k] ELSE default

\* The branch of SetCookieParser6265.validate for the max-age attribute.
ValidateMaxAge(cleaned, attribute_value, now) ==
    IF attribute_value = "" THEN Raise("IndexError")
    ELSE IF ~(IsDigit(CharAt(attribute_value, 0)) \/ CharAt(attribute_value, 0) = "=")
         THEN Ok(cleaned)
    ELSE IF ~AllDigits(attribute_value) THEN Ok(cleaned)
    ELSE LET delta_seconds == ToInt(attribute_value)
         IN  Ok(Put(cleaned, "Max-Age",
                    IF delta_seconds <= 0 THEN Instant(now)
                    ELSE Instant(now + delta_seconds)))

\* The branch for the domain attribute.
ValidateDomain(cleaned, attribute_value) ==
    IF attribute_value = "" THEN Ok(cleaned)
    ELSE Ok(Put(cleaned, "Domain",
                Lower(IF CharAt(attribute_value, 0) = "."
                      THEN SliceFrom(attribute_value, 1)
                      ELSE attribute_value)))

\* The branch for the path attribute.
ValidatePath(cleaned, attribute_value, uri) ==
    IF attribute_value = "" \/ CharAt(attribute_value, 0) # "/"
    THEN LET cookie_path == default_path(uri)
         IN  IF cookie_path.raised THEN cookie_path
             ELSE Ok(Put(cleaned, "Path", cookie_path.v))
    ELSE Ok(Put(cleaned, "Path", attribute_value))

\* The branch for the expires attribute: a date that does not parse is skipped.
ValidateExpires(cleaned, expiry_time) ==
    IF expiry_time.raised THEN Ok(cleaned)
    ELSE Ok(Put(cleaned, "Expires", expiry_time.v))

\* One pass of validate's loop over attrs.items().
ValidateAttr(cleaned, attribute_name, attribute_value, uri, now) ==
    LET name == Lower(attribute_name)
    IN  IF name = "expires"
        THEN ValidateExpires(cleaned, DateParse(attribute_value))
        ELSE IF name = "max-age" THEN ValidateMaxAge(cleaned, attribute_value, now)
        ELSE IF name = "domain" THEN ValidateDomain(cleaned, attribute_value)
        ELSE IF name = "path" THEN ValidatePath(cleaned, attribute_value, uri)
        ELSE IF name = "secure" THEN Ok(Put(cleaned, "Secure", PyStr("")))
        ELSE IF name = "httponly" THEN Ok(Put(cleaned, "HttpOnly", PyStr("")))
        ELSE Ok(cleaned)

\* SetCookieParser6265.validate: the loop, stopped by the first exception.
RECURSIVE validate_from(_, _, _, _)
validate_from(attrs, cleaned, uri, now) ==
    IF cleaned.raised \/ attrs = <<>> THEN cleaned
    ELSE validate_from(Tail(attrs),
                       ValidateAttr(cleaned.v, attrs[1][1], attrs[1][2], uri, now),
                       uri, now)

validate(attrs, uri, now) == validate_from(attrs, Ok(<<>>), uri, now)

\* CookieDomain that leaves host_only_flag set when a Domain was given.
CookieDomain_HostOnlyKept(uri, attrs) ==
    LET domain == Get(attrs, "Domain", "")
        host   == get_domain(uri)
    IN  IF host.raised THEN host
        ELSE IF domain # ""
        THEN LET matches == path_matches(host.v, domain)
             IN  IF matches.raised THEN matches
                 ELSE IF ~matches.v THEN Raise("ValueError")
                 ELSE Ok([domain |-> domain, host_only_flag |-> TRUE])
        ELSE Ok([domain |-> host.v, host_only_flag |-> TRUE])

\* Cookie6265.__init__: the domain and host_only_flag it settles on.
CookieDomain(uri, attrs) ==
    LET domain == Get(attrs, "Domain", "")
        host   == get_domain(uri)
    IN  IF host.raised THEN host
        ELSE IF domain # ""
        THEN LET matches == path_matches(host.v, domain)
             IN  IF matches.raised THEN matches
                 ELSE IF ~matches.v THEN Raise("ValueError")
                 ELSE Ok([domain |-> domain, host_only_flag |-> FALSE])
        ELSE Ok([domain |-> host.v, host_only_flag |-> TRUE])

\* CookieExpiry that looks at Expires before Max-Age.
CookieExpiry_ExpiresFirst(attrs, now) ==
    IF "Expires" \in DOMAIN attrs
    THEN Ok([persistent_flag |-> TRUE, expiry_time |-> attrs["Expires"]])
    ELSE IF "Max-Age" \in DOMAIN attrs
    THEN LET max_age == attrs["Max-Age"]
         IN  IF "int" \notin DOMAIN max_age THEN Raise("TypeError")
             ELSE Ok([persistent_flag |-> TRUE,
                      expiry_time |-> IF max_age.int > 0
                                      THEN Instant(now + max_age.int)
                                      ELSE Instant(now)])
    ELSE Ok([persistent_flag |-> FALSE, expiry_time |-> Instant(now)])

\* Cookie6265.__init__: persistent_flag and expiry_time.
CookieExpiry(attrs, now) ==
    IF "Max-Age" \in DOMAIN attrs
    THEN LET max_age == attrs["Max-Age"]
         IN  IF "int" \notin DOMAIN max_age THEN Raise("TypeError")
             ELSE Ok([persistent_flag |-> TRUE,
                      expiry_time |-> IF max_age.int > 0
                                      THEN Instant(now + max_age.int)
                                      ELSE Instant(now)])
    ELSE IF "Expires" \in DOMAIN attrs
    THEN Ok([persistent_flag |-> TRUE, expiry_time |-> attrs["Expires"]])
    ELSE Ok([persistent_flag |-> FALSE, expiry_time |-> Instant(now)])

\* Cookie6265.__init__: the path.
CookiePath(uri, attrs) ==
    IF Get(attrs, "Path", "") # "" THEN Ok(attrs["Path"]) ELSE default_path(uri)

\* Cookie6265.__init__
Cookie6265(key, value, uri, attrs, now) ==
    LET dom  == CookieDomain(uri, attrs)
        exp  == CookieExpiry(attrs, now)
        path == CookiePath(uri, attrs)
    IN  IF dom.raised THEN dom
        ELSE IF exp.raised THEN exp
        ELSE IF path.raised THEN path
        ELSE Ok([class |-> "Cookie6265", key |-> key, value |-> value,
                 creation_time |-> Instant(now), last_access_time |-> Instant(now),
                 persistent_flag |-> exp.v.persistent_flag,
                 expiry_time |-> exp.v.expiry_time,
                 domain |-> dom.v.domain,
                 host_only_flag |-> dom.v.host_only_flag,
                 path |-> path.v,
                 secure_only_flag |-> Get(attrs, "Secure", PyBool(FALSE)),
                 http_only_flag |-> Get(attrs, "HttpOnly", PyBool(FALSE))])

\* One cookie-av of parse's loop: its name and its value, both stripped.
AttributeName(cookie_av) == Strip(Before(cookie_av, "="))

AttributeValue(cookie_av) ==
    IF Find(cookie_av, "=") = -1 THEN ""
    ELSE Strip(SliceFrom(cookie_av, Find(cookie_av, "=") + 1))

\* The while loop of SetCookieParser6265.parse over the attribute text;
\* unparsed is the text after the loop's first statement dropped a character.
RECURSIVE ParseAttributes(_, _)
ParseUnparsed(unparsed, sep_ind, attrs) ==
    ParseAttributes(SliceFrom(unparsed, sep_ind),
                    DictSet(attrs, AttributeName(BeforeAt(unparsed, sep_ind)),
                            AttributeValue(BeforeAt(unparsed, sep_ind))))

ParseAttributesFrom(unparsed, attrs) ==
    ParseUnparsed(unparsed, Find(unparsed, ";"), attrs)

ParseAttributes(unparsed_attributes, attrs) ==
    IF unparsed_attributes = "" THEN attrs
    ELSE ParseAttributesFrom(SliceFrom(unparsed_attributes, 1), attrs)

\* What parse returns when it returns no cookie.
PyNone == [class |-> "NoneType"]

\* parse after the name-value pair: the attributes, validate, the cookie.
CookieFrom(name, value, uri, cleaned_attrs, now) ==
    IF cleaned_attrs.raised THEN cleaned_attrs
    ELSE Cookie6265(name, value, uri, cleaned_attrs.v, now)

ParsePair(name_value_pair, eq_ind, unparsed_attributes, uri, now) ==
    IF eq_ind = -1 THEN Ok(PyNone)
    ELSE IF Strip(SliceTo(name_value_pair, eq_ind)) = "" THEN Raise("TypeError")
    ELSE CookieFrom(Strip(SliceTo(name_value_pair, eq_ind)),
                    Strip(SliceFrom(name_value_pair, eq_ind + 1)), uri,
                    validate(ParseAttributes(unparsed_attributes, <<>>), uri, now),
                    now)

\* SetCookieParser6265.parse
CookieParse(value, uri, now) ==
    ParsePair(Before(value, ";"), Find(Before(value, ";"), "="),
              IF Find(value, ";") # -1 THEN SliceFrom(value, Find(value, ";")) ELSE "",
              uri, now)

\* ------------------------------------------------------------------ inputs

MaxClock == 1

Paths == {"/", "/a", "/a/", "/a/b", "/ab", "/abc", "/a/bc", "/label1/label2",
          "/label", "/label1", "/label/", "/label1/", "a", "ab", "b/", ""}

UriStrings ==
    {"https://example.com", "https://sub.example.com/a/b", "https://youtube.com",
     "http://127.0.0.1:8080/x/", "http://user@example.com:80/a?k=v#frag",
     "http://[::1]/", "https://[2001:db8::1]:443/a", "http://exa mple.com/",
     "example.com/a", "http:/a/b", "http://example.com:8x/", "",
     "https://Example.COM/ab/", "http://a.com/p?k",
     "https://127.0.0.1/path?name=test#fr",
     "https://testdata@127.0.0.1:1010/path?name=test#fr",
     "http://10.0.0.1", "http://10.0.0.1/", "http://10.0.0.1:0/x",
     "http://10.0.0.1:65535/x/", "http://@10.0.0.1/x", "http://10.0.0.1/x#",
     "http://10.0.0.1/x?", "http://10.0.0.1/x?a=1&b=2&a=3",
     "https://google.com/path?name=test"}

\* Path assignments to a kept Uri3986 object.
MaxAssign == 2

NewPaths == {"", "/", "/new/path", "new/path", "x", "//x"}

\* Date texts: one token per slot ("" leaves the slot out), in either of two
\* orders, with one more token in front.
DayTokens == {"", "7", "07", "31", "29", "30", "0", "32"}

MonthTokens == {"", "Feb", "apr", "DEC"}

YearTokens == {"", "2023", "2024", "1900", "1600", "1601", "70", "69", "00", "100"}

TimeTokens == {"", "13:20:04", "1:2:3", "24:00:00", "23:60:00", "23:59:60"}

ExtraTokens == {"", "08", "1999", "GMT", "Mar", "0:0:0"}

DateTexts ==
    {Join(<<x, d, m, y, t>>, " ") :
        x \in ExtraTokens, d \in DayTokens, m \in MonthTokens,
        y \in YearTokens, t \in TimeTokens}
    \cup {Join(<<t, y, m, d>>, "-") :
        d \in DayTokens, m \in MonthTokens, y \in YearTokens, t \in TimeTokens}
    \cup {"Tue, 07-Feb-2023 13:20:04 GMT", "Tue, 25-Aug-2003 17:45:04 GMT",
          "07 08 Feb 2023 1:2:3", "Feb Mar 1:2:3 4:5:6 07 2023"}

\* Set-Cookie header values: a name-value pair and up to MaxAttrs attributes.
MaxAttrs == 2

NameValuePairs == {"k=v", " key = value ", "kv", "", "=v", "  =v", "k="}

AttrTexts ==
    {"Secure", "secure=1", "HttpOnly", "HTTPONLY",
     "Max-Age=20", "Max-Age=0", "max-age=-5", "Max-Age=+5", "Max-Age=abc",
     "Max-Age==5", "Max-Age",
     "Expires=Tue, 07-Feb-2023 13:20:04 GMT", "Expires=31 Feb 2023 1:2:3",
     "expires=junk",
     "Domain=example.com", "Domain=.Example.COM", "domain=other.org",
     "Domain=", "Domain=.",
     "Path=/p", "path=/q/", "Path=p", "Path=",
     "Foo=bar"}

RECURSIVE AttrLists(_)
AttrLists(n) ==
    IF n = 0 THEN {""}
    ELSE LET shorter == AttrLists(n - 1)
         IN  shorter \cup {l \o ";" \o a : l \in shorter, a \in AttrTexts}
                     \cup {l \o "; " \o a : l \in shorter, a \in {"Secure", "Path=/p"}}

\* A broken name-value pair is tried with no attribute and with one.
Headers ==
    {"k=v" \o l : l \in AttrLists(MaxAttrs)}
    \cup {"k=v;path=/b; Path=/a; path=/c", "k=v;DOMAIN=other.org;domain=example.com"}
    \cup {nv \o l : nv \in NameValuePairs, l \in {"", ";Secure", "; Max-Age=20"}}

\* The request URIs of the cookie calls, as the URI parser returns them.
RequestUris ==
    {UriParse(u).v : u \in {"https://example.com", "https://sub.example.com/a/b",
                            "http://127.0.0.1:8080/x/"}}

\* Cleaned attribute maps handed to Cookie6265 directly: Max-Age as the
\* number of seconds (tests) or as the timestamp validate stores.
RECURSIVE MapsOver(_)
MapsOver(choices) ==
    IF choices = <<>> THEN {<<>>}
    ELSE LET rest == MapsOver(Tail(choices))
             k    == choices[1][1]
         IN  rest \cup {Put(m, k, v) : m \in rest, v \in choices[1][2]}

ExpiresValues ==
    {[year |-> 2023, month |-> 2, day |-> 7, hour |-> 13, minute |-> 20, second |-> 4]}

CleanedMaps(now) ==
    MapsOver(<<
        <<"Max-Age", {PyInt(20), PyInt(0), PyInt(-3), Instant(now), Instant(now + 20)}>>,
        <<"Expires", ExpiresValues \cup {Instant(now + 7)}>>,
        <<"Domain", {"", "example.com", "ample.com", "other.org", "127.0.0.1"}>>,
        <<"Path", {"/p", ""}>>,
        <<"Secure", {PyStr(""), PyBool(TRUE)}>>,
        <<"HttpOnly", {PyStr(""), PyBool(TRUE)}>> >>)

\* ----------------------------------------------------------------- actions

\* A returned bool, as the record ret keeps for it.
Boxed(r) == IF r.raised THEN r ELSE Ok(PyBool(r.v))


\* Threads making first use of one LazyLoadLark descriptor.
NumThreads == 3

Threads == 1..NumThreads

\* LazyLoadLark.__init__: no parser yet (0), the keyword arguments kept;
\* no thread has entered __get__.
LazyInit ==
    /\ parser = 0
    /\ kwargs = TRUE
    /\ reads = 0
    /\ thread = [t \in Threads |-> [pc |-> "get", built |-> 0, got |-> 0]]

Init ==
    /\ clock = 0
    /\ call = [op |-> "none"]
    /\ ret = NoCall
    /\ LazyInit

Tick ==
    /\ call.op = "none"
    /\ clock < MaxClock
    /\ clock' = clock + 1
    /\ UNCHANGED <<call, ret, lazy>>

PathMatchesCall ==
    /\ call.op = "none"
    /\ \E rp \in Paths, cp \in Paths :
        /\ call' = [op |-> "path_matches", request_path |-> rp, cookie_path |-> cp]
        /\ ret' = Boxed(path_matches(rp, cp))
    /\ UNCHANGED <<clock, lazy>>

UriParseCall ==
    /\ call.op = "none"
    /\ \E value \in UriStrings :
        /\ call' = [op |-> "uri_parse", value |-> value]
        /\ ret' = UriParse(value)
    /\ UNCHANGED <<clock, lazy>>

DateParseCall ==
    /\ call.op = "none"
    /\ \E value \in DateTexts :
        /\ call' = [op |-> "date_parse", value |-> value]
        /\ ret' = DateParse(value)
    /\ UNCHANGED <<clock, lazy>>

CookieParseCall ==
    /\ call.op = "none"
    /\ \E value \in Headers, uri \in RequestUris :
        /\ call' = [op |-> "cookie_parse", value |-> value, uri |-> uri]
        /\ ret' = CookieParse(value, uri, clock)
    /\ UNCHANGED <<clock, lazy>>

CookieConstructCall ==
    /\ call.op = "none"
    /\ \E attrs \in CleanedMaps(clock), uri \in RequestUris :
        /\ call' = [op |-> "cookie_construct", attrs |-> attrs, uri |-> uri]
        /\ ret' = Cookie6265("test", "test", uri, attrs, clock)
    /\ UNCHANGED <<clock, lazy>>

\* str(value) as ret keeps it.
Rendered(r) == IF r.raised THEN r ELSE Ok(PyStr(r.v))

\* A caller parses a URI, keeps the Uri3986 object and renders it.
UriObjectCall ==
    /\ call.op = "none"
    /\ \E value \in UriStrings :
        /\ ~UriParse(value).raised
        /\ call' = [op |-> "uri_object", value |-> value,
                    original |-> UriParse(value).v, uri |-> UriParse(value).v,
                    assigned |-> 0, newvalue |-> ""]
        /\ ret' = Rendered(UriStr(UriParse(value).v))
    /\ UNCHANGED <<clock, lazy>>

\* value.path = newvalue on the kept object, then str(value).
PathAssign ==
    /\ call.op = "uri_object"
    /\ call.assigned < MaxAssign
    /\ \E newvalue \in NewPaths :
        /\ call' = [call EXCEPT !.uri = SetPath(call.uri, newvalue),
                                !.assigned = call.assigned + 1,
                                !.newvalue = newvalue]
        /\ ret' = Rendered(UriStr(SetPath(call.uri, newvalue)))
    /\ UNCHANGED <<clock, lazy>>

\* The caller takes the outcome; the next call starts afresh.
Return ==
    /\ call.op # "none"
    /\ call' = [op |-> "none"]
    /\ ret' = NoCall
    /\ UNCHANGED <<clock, lazy>>

Next ==
    \/ Tick
    \/ PathMatchesCall
    \/ UriParseCall
    \/ DateParseCall
    \/ CookieParseCall
    \/ CookieConstructCall
    \/ UriObjectCall
    \/ PathAssign
    \/ Return

Spec == Init /\ [][Next]_vars

\* ------------------------------------------- core.py: LazyLoadLark.__get__
\* One step of thread t is what __get__ does between two points where
\* another thread can run.

\* "if self.parser is None:"
CheckParser(t) ==
    /\ thread[t].pc = "get"
    /\ thread' = [thread EXCEPT ![t].pc = IF parser = 0 THEN "open" ELSE "return"]
    /\ UNCHANGED <<parser, kwargs, reads, clock, call, ret>>

\* "with open(path) as f: ... f.read()": the grammar file is read.
ReadGrammar(t) ==
    /\ thread[t].pc = "open"
    /\ reads' = reads + 1
    /\ thread' = [thread EXCEPT ![t].pc = "build"]
    /\ UNCHANGED <<parser, kwargs, clock, call, ret>>

\* "Lark(f.read(), source_path=path, **self.kwargs)": a new parser object,
\* known by the thread that made it, or AttributeError when self.kwargs is
\* deleted.
BuildParser(t) ==
    /\ thread[t].pc = "build"
    /\ thread' = [thread EXCEPT ![t].pc = IF kwargs THEN "assign" ELSE "failed",
                                ![t].built = IF kwargs THEN t ELSE 0]
    /\ UNCHANGED <<parser, kwargs, reads, clock, call, ret>>

\* "self.parser = ..."
AssignParser(t) ==
    /\ thread[t].pc = "assign"
    /\ parser' = thread[t].built
    /\ thread' = [thread EXCEPT ![t].pc = "del"]
    /\ UNCHANGED <<kwargs, reads, clock, call, ret>>

\* "del self.kwargs": AttributeError when it is deleted already.
DelKwargs(t) ==
    /\ thread[t].pc = "del"
    /\ kwargs' = FALSE
    /\ thread' = [thread EXCEPT ![t].pc = IF kwargs THEN "return" ELSE "failed"]
    /\ UNCHANGED <<parser, reads, clock, call, ret>>

\* "return self.parser"
ReturnParser(t) ==
    /\ thread[t].pc = "return"
    /\ thread' = [thread EXCEPT ![t].pc = "done", ![t].got = parser]
    /\ UNCHANGED <<parser, kwargs, reads, clock, call, ret>>

LazyNext ==
    \/ \E t \in Threads : CheckParser(t)
    \/ \E t \in Threads : ReadGrammar(t)
    \/ \E t \in Threads : BuildParser(t)
    \/ \E t \in Threads : AssignParser(t)
    \/ \E t \in Threads : DelKwargs(t)
    \/ \E t \in Threads : ReturnParser(t)

LazySpec == Init /\ [][LazyNext]_vars

\* ------------------------------------------------------------------ claims

\* What a header or a date text says, read off the text itself.
IsCookie(r) == ~r.raised /\ r.v.class = "Cookie6265"

\* The attribute segments of a header value: the pieces after the first ";".
Segments(value) == Tail(Split(value, ";"))

SegName(seg) ==
    Lower(Strip(IF Find(seg, "=") = -1 THEN seg ELSE SliceTo(seg, Find(seg, "="))))

SegValue(seg) ==
    Strip(IF Find(seg, "=") = -1 THEN "" ELSE SliceFrom(seg, Find(seg, "=") + 1))

HasAttr(value, name) ==
    \E i \in 1..Len(Segments(value)) : SegName(Segments(value)[i]) = name

\* The values of the attributes called name, in the order of the text.
RECURSIVE ValuesIn(_, _)
ValuesIn(segs, name) ==
    IF segs = <<>> THEN <<>>
    ELSE (IF SegName(segs[1]) = name THEN <<SegValue(segs[1])>> ELSE <<>>)
         \o ValuesIn(Tail(segs), name)

\* The header value without its i-th attribute segment.
WithoutSegment(value, i) ==
    LET segs == Segments(value)
    IN  Join(<<Split(value, ";")[1]>> \o SubSeq(segs, 1, i - 1)
             \o SubSeq(segs, i + 1, Len(segs)), ";")

HostOf(uri) == IF IsNone(uri.ip) THEN Join(uri.host[1], ".") ELSE uri.ip[1]

\* C1: a cookie parsed from a header has secure_only_flag the boolean true
\* exactly when the header has a Secure attribute and false otherwise, and
\* http_only_flag likewise for HttpOnly.
C1_FlagsAreBooleans ==
    (call.op = "cookie_parse" /\ IsCookie(ret)) =>
        /\ ret.v.secure_only_flag = PyBool(HasAttr(call.value, "secure"))
        /\ ret.v.http_only_flag = PyBool(HasAttr(call.value, "httponly"))

\* The time a Max-Age stands for: now + n for n > 0 seconds and now
\* otherwise, or the timestamp itself when the map already holds one.
MaxAgeTime(max_age, now) ==
    IF "int" \in DOMAIN max_age
    THEN Instant(IF max_age.int > 0 THEN now + max_age.int ELSE now)
    ELSE max_age

IsSignedInt(s) ==
    LET body == IF s # "" /\ Head(s) \in {"+", "-"} THEN Tail(s) ELSE s
    IN  body # "" /\ AllDigits(body)

SignedIntValue(s) ==
    IF Head(s) = "-" THEN 0 - ToInt(Tail(s))
    ELSE IF Head(s) = "+" THEN ToInt(Tail(s))
    ELSE ToInt(s)

\* C3: a header "name=value" with the one attribute Max-Age=n, n a signed
\* integer, parses to a cookie with persistent_flag true whose expiry_time is
\* now for n <= 0 and now + n seconds for n > 0; a Max-Age value that is no
\* signed integer is dropped.
C3_MaxAgeEndToEnd ==
    (/\ call.op = "cookie_parse"
     /\ Find(Split(call.value, ";")[1], "=") > 0
     /\ Len(Segments(call.value)) = 1
     /\ SegName(Segments(call.value)[1]) = "max-age"
     /\ SegValue(Segments(call.value)[1]) # "") =>
        LET text == SegValue(Segments(call.value)[1])
        IN  /\ IsCookie(ret)
            /\ IF IsSignedInt(text)
               THEN /\ ret.v.persistent_flag
                    /\ ret.v.expiry_time =
                           Instant(IF SignedIntValue(text) > 0
                                   THEN clock + SignedIntValue(text) ELSE clock)
               ELSE ~ret.v.persistent_flag

\* An attribute that is bad by itself: an Expires that is no date, a Max-Age
\* that is no signed integer, an empty Domain, a Path that is empty or does
\* not start with "/".
BadAttr(seg, uri) ==
    \/ SegName(seg) = "expires" /\ DateParse(SegValue(seg)).raised
    \/ SegName(seg) = "max-age" /\ ~IsSignedInt(SegValue(seg))
    \/ SegName(seg) = "domain" /\ SegValue(seg) = ""
    \/ SegName(seg) = "path" /\ ~StartsWith(SegValue(seg), "/")

\* C4: in a header with a well-formed pair and no Domain to check, where the
\* same header without its i-th attribute gives a cookie, a bad i-th attribute
\* whose name occurs once gives that same cookie.
C4_BadAttributeDropped ==
    (call.op = "cookie_parse" /\ ValuesIn(Segments(call.value), "domain") \in {<<>>, <<"">>}) =>
        \A i \in 1..Len(Segments(call.value)) :
            LET seg   == Segments(call.value)[i]
                other == CookieParse(WithoutSegment(call.value, i), call.uri, clock)
            IN  (/\ BadAttr(seg, call.uri)
                 /\ Len(ValuesIn(Segments(call.value), SegName(seg))) = 1
                 /\ IsCookie(other)) => ret = other

\* The domain-match rule: the host is the domain or ends with "." + domain.
DomainMatch(h, d) == h = d \/ EndsWith(h, "." \o d)

\* C5: Cookie6265 with a non-empty Domain d in the cleaned map (and nothing
\* else that can fail: no Max-Age, a usable Path) gives a cookie with
\* domain d and host_only_flag false exactly when the request host equals d
\* or ends with "." + d, and fails with a validation failure otherwise.
C5_DomainMatchRule ==
    (/\ call.op = "cookie_construct"
     /\ Get(call.attrs, "Domain", "") # ""
     /\ "Max-Age" \notin DOMAIN call.attrs
     /\ Get(call.attrs, "Path", "") # "") =>
        IF DomainMatch(HostOf(call.uri), call.attrs["Domain"])
        THEN /\ IsCookie(ret)
             /\ ret.v.domain = call.attrs["Domain"]
             /\ ~ret.v.host_only_flag
        ELSE ret.raised /\ ret.exc \in {"ValidationException", "ValueError"}

\* The Domain value after the Normalizer: one leading dot off, lower case.
NormalDomain(text) == Lower(IF StartsWith(text, ".") THEN Tail(text) ELSE text)

C6_WitnessExplicit ==
    /\ call.op = "cookie_parse"
    /\ IsCookie(ret)
    /\ ValuesIn(Segments(call.value), "domain") = <<".Example.COM">>
    /\ ~ret.v.host_only_flag
    /\ ret.v.domain = "example.com"

C8_TokenizerFailures ==
    (call.op = "cookie_parse" /\
        LET pair == Split(call.value, ";")[1]
        IN  Find(pair, "=") = -1 \/ Strip(SliceTo(pair, Find(pair, "="))) = "") =>
        ret.raised /\ ret.exc \in {"ParseException", "ValidationException"}

\* The slots tree_parse fills from a date text, and the year it resolves.
SlotsOf(text) == ScanTokens(DateTokens(text, ""), NoSlots)

AllSlotsFilled(st) ==
    /\ ~IsNone(st.found_time)
    /\ ~IsNone(st.found_month)
    /\ ~IsNone(st.found_day_of_month)
    /\ ~IsNone(st.found_year)

ResolvedYear(v) == IF v >= 70 /\ v <= 99 THEN 1900 + v ELSE IF v <= 69 THEN 2000 + v ELSE v

InRanges(st) ==
    /\ st.day_of_month_value[1] >= 1
    /\ st.day_of_month_value[1] <= 31
    /\ ResolvedYear(st.year_value[1]) >= 1601
    /\ st.hour_value[1] <= 23
    /\ st.minute_value[1] <= 59
    /\ st.second_value[1] <= 59

ResolvedDate(st) ==
    [year |-> ResolvedYear(st.year_value[1]), month |-> st.month_value[1],
     day |-> st.day_of_month_value[1], hour |-> st.hour_value[1],
     minute |-> st.minute_value[1], second |-> st.second_value[1]]

\* C9 as claimed: DateParser6265.parse yields the timestamp of the resolved
\* fields exactly when all four slots were filled and day is in 1..31, the
\* normalised year is at least 1601, hour <= 23, minute <= 59, second <= 59;
\* the day is not checked against the month, so 31 Feb is accepted.
C9_AcceptedIffRanges ==
    call.op = "date_parse" =>
        LET st == SlotsOf(call.value)
        IN  IF AllSlotsFilled(st) /\ InRanges(st)
            THEN ret = Ok(ResolvedDate(st))
            ELSE ret.raised

\* C9 as amended: the timestamp is yielded exactly when, besides the slots
\* and the ranges, the day exists in the resolved month and year (at most
\* 30 in Apr, Jun, Sep, Nov; 28 in Feb, 29 in a leap year); 31 Feb fails.
C9_AcceptedIffRangesAndCalendar ==
    call.op = "date_parse" =>
        LET st == SlotsOf(call.value)
        IN  IF /\ AllSlotsFilled(st)
               /\ InRanges(st)
               /\ st.day_of_month_value[1]
                    <= DaysInMonth(ResolvedYear(st.year_value[1]), st.month_value[1])
            THEN ret = Ok(ResolvedDate(st))
            ELSE ret.raised /\ ret.exc = "ParseException"

\* C9 witness: 31 Feb with every slot filled and in range is refused.
C9_Witness ==
    /\ call.op = "date_parse"
    /\ AllSlotsFilled(SlotsOf(call.value))
    /\ InRanges(SlotsOf(call.value))
    /\ SlotsOf(call.value).day_of_month_value = Some(31)
    /\ SlotsOf(call.value).month_value = Some(2)
    /\ ret.raised

\* C9 witness: a two-digit year 69 resolves to 2069 in an accepted date.
C9_WitnessAccepted ==
    /\ call.op = "date_parse"
    /\ ~ret.raised
    /\ SlotsOf(call.value).year_value = Some(69)
    /\ ret.v.year = 2069

\* The host of the URI's authority is a bracketed literal.
HasBracketedHost(value) ==
    LET i == Find(value, "/")
    IN  i # -1 /\ StartsWith(SliceFrom(value, i), "//[") /\ Find(value, "]") # -1

\* C10: for a URI with a bracketed IPv6 host UriParser3986.parse raises
\* something other than the ParseException it raises for a grammar violation.
C10_IPv6Distinct ==
    (call.op = "uri_parse" /\ HasBracketedHost(call.value)) =>
        ret.raised /\ ret.exc # UriParse("example.com/a").exc

\* C11: for a valid URI with an IPv4 authority, parsing the rendering of the
\* parsed Uri gives a Uri equal (Uri3986.__eq__) to the parsed one.
C11_RoundTrip ==
    (call.op = "uri_object" /\ call.assigned = 0 /\ ~IsNone(call.uri.ip)) =>
        /\ ~ret.raised
        /\ ~UriParse(ret.v.str).raised
        /\ UriEq(UriParse(ret.v.str).v, call.uri)

\* C12: a Uri from the parser, after any path assignments, has a path that
\* is empty or starts with "/": the last value assigned, with one "/" put
\* before it when it is non-empty and has none; every other field is as
\* parsed; and the rendering has "/" where the path is empty, which stays
\* empty in the object.
C12_PathNormalised ==
    call.op = "uri_object" =>
        /\ call.uri.path = "" \/ StartsWith(call.uri.path, "/")
        /\ call.assigned > 0 =>
               call.uri.path = IF call.newvalue = "" \/ StartsWith(call.newvalue, "/")
                               THEN call.newvalue ELSE "/" \o call.newvalue
        /\ [call.uri EXCEPT !.path = ""] = [call.original EXCEPT !.path = ""]
        /\ ~ret.raised
        /\ call.uri.path = "" =>
               ret.v.str = UriStr([call.uri EXCEPT !.path = "/"]).v
        /\ call.uri.path # "" =>
               \E i \in 1..Len(ret.v.str) :
                   SubSeq(ret.v.str, i, i + Len(call.uri.path) - 1) = call.uri.path

\* C12 witness: a relative value was assigned and then the empty one; the
\* path is empty and the rendering has "/" for it.
C12_Witness ==
    /\ call.op = "uri_object"
    /\ call.assigned = 2
    /\ call.newvalue = ""
    /\ call.uri.path = ""
    /\ call.original.path = "/path"
    /\ ret = Ok(PyStr("https://google.com/?name=test"))

\* C12 witness: a relative value gets one "/" in front.
C12_WitnessRelative ==
    /\ call.op = "uri_object"
    /\ call.newvalue = "new/path"
    /\ call.uri.path = "/new/path"
    /\ ret = Ok(PyStr("https://google.com/new/path?name=test"))

\* p with everything from its final "/" onward removed.
RECURSIVE BeforeFinalSlash(_)
BeforeFinalSlash(p) ==
    IF p = "" THEN ""
    ELSE IF EndsWith(p, "/") THEN SubSeq(p, 1, Len(p) - 1)
    ELSE BeforeFinalSlash(SubSeq(p, 1, Len(p) - 1))

\* The default path as the claim words it.
ClaimedDefaultPath(p) ==
    IF Count(p, "/") <= 1 \/ BeforeFinalSlash(p) = "" THEN "/"
    ELSE BeforeFinalSlash(p)

\* A Path attribute the Normalizer keeps: its value starts with "/".
HasUsablePath(value) ==
    \E i \in 1..Len(Segments(value)) :
        /\ SegName(Segments(value)[i]) = "path"
        /\ StartsWith(SegValue(Segments(value)[i]), "/")

\* C13: a cookie parsed from a header with no usable Path attribute has as
\* path the request path with everything from its final "/" onward removed,
\* or "/" when that is empty or the request path has no "/" beyond the
\* leading one; the path is non-empty and starts with "/"; and a header of
\* a name-value pair alone always gives a cookie.
C13_DefaultPath ==
    (call.op = "cookie_parse" /\ ~HasUsablePath(call.value)) =>
        /\ IsCookie(ret) =>
               /\ ret.v.path = ClaimedDefaultPath(call.uri.path)
               /\ StartsWith(ret.v.path, "/")
        /\ call.value = "k=v" => IsCookie(ret)

\* The attribute names the Normalizer knows.
RecognizedNames == {"expires", "max-age", "domain", "path", "secure", "httponly"}

\* The positions of the attributes called name, and the header without those
\* before the last of them.
PositionsOf(value, name) ==
    {i \in 1..Len(Segments(value)) : SegName(Segments(value)[i]) = name}

LastOf(value, name) ==
    CHOOSE i \in PositionsOf(value, name) : \A j \in PositionsOf(value, name) : j <= i

RECURSIVE KeepFrom(_, _, _, _)
KeepFrom(segs, i, name, last) ==
    IF i > Len(segs) THEN <<>>
    ELSE (IF SegName(segs[i]) = name /\ i # last THEN <<>> ELSE <<segs[i]>>)
         \o KeepFrom(segs, i + 1, name, last)

OnlyLast(value, name) ==
    Join(<<Split(value, ";")[1]>>
         \o KeepFrom(Segments(value), 1, name, LastOf(value, name)), ";")

\* The cleaned attribute map parse hands to Cookie6265 for a header.
CleanedOf(value, uri, now) ==
    validate(ParseAttributes(IF Find(value, ";") = -1 THEN ""
                             ELSE SliceFrom(value, Find(value, ";")), <<>>),
             uri, now)

\* C14: when a recognized attribute name occurs more than once in a header,
\* in any letter cases, and its last occurrence is usable by itself, the
\* cleaned map is the one of the header with only that last occurrence: the
\* earlier ones have no effect.
C14_LastOccurrenceWins ==
    call.op = "cookie_parse" =>
        \A name \in RecognizedNames :
            (/\ Cardinality(PositionsOf(call.value, name)) > 1
             /\ ~BadAttr(Segments(call.value)[LastOf(call.value, name)], call.uri)) =>
                CleanedOf(call.value, call.uri, clock)
                    = CleanedOf(OnlyLast(call.value, name), call.uri, clock)

\* The classification as the claim words it: time, then month, then
\* day-of-month, then year, each only while its slot is empty.
ClaimedClassify(st, token) ==
    IF IsNone(st.found_time) /\ TimeRule(token)
    THEN [st EXCEPT !.found_time = Some(token),
                    !.hour_value = Some(ToInt(Split(token, ":")[1])),
                    !.minute_value = Some(ToInt(Split(token, ":")[2])),
                    !.second_value = Some(ToInt(Split(token, ":")[3]))]
    ELSE IF IsNone(st.found_month) /\ MonthRule(token)
    THEN [st EXCEPT !.found_month = Some(token),
                    !.month_value = Some(month_map(Lower(token)))]
    ELSE IF IsNone(st.found_day_of_month) /\ DayOfMonthRule(token)
    THEN [st EXCEPT !.found_day_of_month = Some(token),
                    !.day_of_month_value = Some(ToInt(token))]
    ELSE IF IsNone(st.found_year) /\ YearRule(token)
    THEN [st EXCEPT !.found_year = Some(token),
                    !.year_value = Some(ToInt(token))]
    ELSE st

RECURSIVE ClaimedScan(_, _)
ClaimedScan(tokens, st) ==
    IF tokens = <<>> THEN st
    ELSE ClaimedScan(Tail(tokens), ClaimedClassify(st, tokens[1]))

\* C15: the slots tree_parse fills are those of the left-to-right scan that
\* gives each token to the first empty slot it matches, tested in the order
\* time, month, day-of-month, year, and never refills a slot; a date that
\* parse returns is made of these slots' values.
C15_SlotClassification ==
    call.op = "date_parse" =>
        /\ SlotsOf(call.value) = ClaimedScan(DateTokens(call.value, ""), NoSlots)
        /\ ~ret.raised =>
               ret.v = ResolvedDate(ClaimedScan(DateTokens(call.value, ""), NoSlots))

\* C15 witness: in "07 08 Feb 2023 1:2:3" the day is 7, the year 2008 and
\* "2023" is left out.
C15_Witness ==
    /\ call.op = "date_parse"
    /\ call.value = "07 08 Feb 2023 1:2:3"
    /\ ret = Ok([year |-> 2008, month |-> 2, day |-> 7,
                 hour |-> 1, minute |-> 2, second |-> 3])

\* C15 witness: the second month name and the second time are passed over.
C15_WitnessFirstKept ==
    /\ call.op = "date_parse"
    /\ call.value = "Feb Mar 1:2:3 4:5:6 07 2023"
    /\ ret = Ok([year |-> 2023, month |-> 2, day |-> 7,
                 hour |-> 1, minute |-> 2, second |-> 3])

\* C16: however the threads making first use of the descriptor interleave,
\* the grammar file is read at most once, no thread fails, and the threads
\* that returned hold the same parser object.
C16_LoadedOnce ==
    /\ reads <= 1
    /\ \A t \in Threads : thread[t].pc # "failed"
    /\ \A t, u \in Threads :
           (thread[t].pc = "done" /\ thread[u].pc = "done") =>
               thread[t].got = thread[u].got

====
